---- MODULE Spec2Model ----
(***************************************************************************)
(* Model of Blender (src/js/lib/blender.ts): the reconciliation of the     *)
(* JSON visual tree with the HTML DOM into one XML tree; and of the /run   *)
(* route of the demo server (src/unnamed/part_001) with its Python shell.  *)
(* The two are separate programs: Spec runs the Blender with the server    *)
(* at rest, SpecBridge runs the server with the Blender at rest.           *)
(*                                                                         *)
(* Strings the code inspects (keys, tag names, attribute names) are        *)
(* sequences of one-character strings, so that startsWith, concatenation   *)
(* and number formatting are computed as the code computes them.  Strings  *)
(* the code only copies (attribute values, text data) are TLA+ strings.    *)
(***************************************************************************)
EXTENDS Integers, Sequences, FiniteSets, TLC

(***************************************************************************)
(* Bounds of the model.                                                    *)
(***************************************************************************)
MaxChildren == 2   \* HTML children of <body> in the flat family
MaxKeys == 2       \* JSON entries of "/body" in the flat family
MaxNested == 1     \* children / entries one level below, nested family
MaxAttrs == 1      \* native / visual attributes per node, attribute family
MaxBlends == 2     \* calls of blend() on one Blender
MaxRequests == 3   \* GET /run requests the demo server receives

(***************************************************************************)
(* Strings.                                                                *)
(***************************************************************************)
startsWith(s, p) == Len(s) >= Len(p) /\ SubSeq(s, 1, Len(p)) = p

Digit(d) == <<"0", "1", "2", "3", "4", "5", "6", "7", "8", "9">>[d + 1]

RECURSIVE NumToStr(_)
NumToStr(n) ==
    IF n < 10 THEN <<Digit(n)>>
    ELSE NumToStr(n \div 10) \o <<Digit(n % 10)>>

Slash == <<"/">>
Underscore == <<"_">>
TextSentinel == <<"t", "e", "x", "t", "(", ")">>
TextTag == <<"t", "e", "x", "t">>
K_whiteSpace == <<"w", "h", "i", "t", "e", "S", "p", "a", "c", "e">>
K_id == <<"i", "d">>
K_text == <<"_", "t", "e", "x", "t">>
K_timestamp == <<"t", "i", "m", "e", "s", "t", "a", "m", "p">>

(***************************************************************************)
(* JSON values (NodeData | DomData): an object is its entries in insertion *)
(* order; a scalar carries its `${value}` text.                            *)
(***************************************************************************)
Obj(e) == [t |-> "obj", s |-> "", e |-> e]
Scalar(s) == [t |-> "scalar", s |-> s, e |-> <<>>]
Null == [t |-> "null", s |-> "null", e |-> <<>>]
Entry(k, v) == [key |-> k, value |-> v]

\* Object.entries(data): the own entries of an object, none for a number
\* or a boolean; of null it throws a TypeError (see entriesThrow).
ObjectEntries(data) == IF data.t = "obj" THEN data.e ELSE <<>>
entriesThrow(data) == data.t = "null"

Keys(entries) == [i \in 1..Len(entries) |-> entries[i].key]

(***************************************************************************)
(* HTML nodes (domhandler).  A parsed document is a tree; the Blender      *)
(* holds it as a heap of nodes addressed by their path from the root, so   *)
(* that the in-place changes of a node's `children` array are visible.     *)
(***************************************************************************)
El(name, attribs, children) ==
    [type |-> "tag", name |-> name, attribs |-> attribs, data |-> "",
     children |-> children]
Text(data) ==
    [type |-> "text", name |-> <<>>, attribs |-> <<>>, data |-> data,
     children |-> <<>>]
Comment(data) ==
    [type |-> "comment", name |-> <<>>, attribs |-> <<>>, data |-> data,
     children |-> <<>>]
Directive(data) ==
    [type |-> "directive", name |-> <<"!">>, attribs |-> <<>>, data |-> data,
     children |-> <<>>]
Document(children) ==
    [type |-> "root", name |-> <<>>, attribs |-> <<>>, data |-> "",
     children |-> children]
Attr(name, value) == [name |-> name, value |-> value]

isText(n) == n.type = "text"
isTag(n) == n.type = "tag"
isDocument(n) == n.type = "root"
isComment(n) == n.type = "comment"
isDirective(n) == n.type = "directive"

RECURSIVE NodeAt(_, _)
NodeAt(t, p) ==
    IF p = <<>> THEN t ELSE NodeAt(t.children[Head(p)], Tail(p))

RECURSIVE Paths(_)
Paths(t) ==
    {<<>>} \cup
    UNION {{<<i>> \o q : q \in Paths(t.children[i])} :
           i \in 1..Len(t.children)}

\* cheerio.load(html): the heap of the parsed tree.
CheerioLoad(t) ==
    [p \in Paths(t) |->
        [NodeAt(t, p) EXCEPT
            !.children = [i \in 1..Len(@) |-> Append(p, i)]]]

T_html == <<"h", "t", "m", "l">>
T_head == <<"h", "e", "a", "d">>
T_body == <<"b", "o", "d", "y">>
T_a == <<"a">>
T_b == <<"b">>

\* cheerio.load(''): the parser supplies html, head and body.
EmptyPage == Document(<<El(T_html, <<>>,
                 <<El(T_head, <<>>, <<>>), El(T_body, <<>>, <<>>)>>)>>)

\* cheerio.load('', { xml: true }): a document without children.
EmptyResult == <<[type |-> "root", name |-> <<>>, attribs |-> <<>>,
                  children |-> <<>>]>>

(***************************************************************************)
(* cheerio's attr(name, value) on one node: only an element takes          *)
(* attributes; null removes the attribute; a present name keeps its place. *)
(***************************************************************************)
RemoveAttr(attribs, name) ==
    SelectSeq(attribs, LAMBDA a : a.name # name)

PutAttr(attribs, name, value) ==
    IF \E i \in 1..Len(attribs) : attribs[i].name = name
    THEN [i \in 1..Len(attribs) |->
            IF attribs[i].name = name THEN Attr(name, value) ELSE attribs[i]]
    ELSE Append(attribs, Attr(name, value))

\* `${value}` of a JSON value.
ValueText(v) == IF v.t = "obj" THEN "[object Object]" ELSE v.s

attr(result, xmlNode, name, v) ==
    IF result[xmlNode].type # "tag" THEN result
    ELSE IF v.t = "null"
    THEN [result EXCEPT ![xmlNode].attribs = RemoveAttr(@, name)]
    ELSE [result EXCEPT ![xmlNode].attribs = PutAttr(@, name, ValueText(v))]

AttrValue(node, name) ==
    LET hit == SelectSeq(node.attribs, LAMBDA a : a.name = name)
    IN  IF hit = <<>> THEN "<none>" ELSE hit[1].value

HasAttr(node, name) == \E i \in 1..Len(node.attribs) : node.attribs[i].name = name

(***************************************************************************)
(* The logger and the record of what blendNode did (the record is not      *)
(* program state: it lets properties speak about the steps of a run).      *)
(***************************************************************************)
LogEntry(call, xpath, msg, key, type, anyJson, anyHtml, xpathElement) ==
    [call |-> call, xpath |-> xpath, msg |-> msg, key |-> key, type |-> type,
     anyJson |-> anyJson, anyHtml |-> anyHtml, xpathElement |-> xpathElement]

Event(call, ev, xpath, node, xml, keys, html, child, index, key) ==
    [call |-> call, ev |-> ev, xpath |-> xpath, node |-> node, xml |-> xml,
     keys |-> keys, html |-> html, child |-> child, index |-> index,
     key |-> key, value |-> Null]

\* Variant: a child without a JSON entry is passed over in silence.
warn_SilentMissing(st, entry) ==
    IF entry.msg = "non-existent child" THEN st
    ELSE [st EXCEPT !.log = Append(@, entry)]

warn(st, entry) == [st EXCEPT !.log = Append(@, entry)]
note(st, event) == [st EXCEPT !.trace = Append(@, event)]

(***************************************************************************)
(* The pieces of blendNode.                                                *)
(***************************************************************************)
\* Lines 71-76: the leading entries whose key does not start with a slash.
RECURSIVE LeadingAttrs(_)
LeadingAttrs(entries) ==
    IF entries # <<>> /\ ~startsWith(entries[1].key, Slash)
    THEN 1 + LeadingAttrs(Tail(entries))
    ELSE 0

ignoredKey(key) == key = K_whiteSpace \/ key = K_id

visualName(key) == Underscore \o key

RECURSIVE visualAttrs(_, _, _)
visualAttrs(result, xmlNode, entries) ==
    IF entries = <<>> THEN result
    ELSE LET e == entries[1]
         IN  visualAttrs(
                 IF ignoredKey(e.key) THEN result
                 ELSE attr(result, xmlNode, visualName(e.key), e.value),
                 xmlNode, Tail(entries))

\* Variant: a key without a slash among the child entries goes unnoticed.
keyWithoutSlash_Unchecked(dataEntries) == 0

\* Lines 79-84: the first key without a slash among the child entries.
keyWithoutSlash(dataEntries) ==
    LET bad == {i \in 1..Len(dataEntries) :
                   ~startsWith(dataEntries[i].key, Slash)}
    IN  IF bad = {} THEN 0
        ELSE CHOOSE i \in bad : \A j \in bad : i <= j

\* Line 92.
nativeName(name) ==
    IF startsWith(name, Underscore) THEN <<"_", "_">> \o name ELSE name

RECURSIVE nativeAttrs(_, _, _)
nativeAttrs(result, xmlNode, attribs) ==
    IF attribs = <<>> THEN result
    ELSE nativeAttrs(
             attr(result, xmlNode, nativeName(attribs[1].name),
                  Scalar(attribs[1].value)),
             xmlNode, Tail(attribs))

\* Lines 87-94, for a node that is a Text, an Element or a Document.
htmlAttrs(result, xmlNode, htmlEl) ==
    IF isText(htmlEl) THEN attr(result, xmlNode, K_text, Scalar(htmlEl.data))
    ELSE IF isTag(htmlEl) THEN nativeAttrs(result, xmlNode, htmlEl.attribs)
    ELSE result

\* Line 102: the node's own children array, or a fresh empty one for a Text.
htmlChildrenOf(dom, htmlNode) ==
    IF isText(dom[htmlNode]) THEN <<>> ELSE dom[htmlNode].children

\* Variant: the array loses its last element instead of its first.
shift_Last(htmlChildren) == SubSeq(htmlChildren, 1, Len(htmlChildren) - 1)

\* Line 117: what htmlChildren.shift() leaves in the array.
shift(htmlChildren) == Tail(htmlChildren)

\* Variant: only JSON entries left over count as a mismatch.
inconsistentCount_JsonOnly(anyJson, anyHtml) == anyJson /\ ~anyHtml

\* Line 108.
inconsistentCount(anyJson, anyHtml) == anyJson # anyHtml

\* Lines 119-120.
htmlTagNameOf(htmlChild) ==
    IF isText(htmlChild) THEN TextSentinel ELSE htmlChild.name

\* Line 126: (htmlCounts.get(htmlTagName) ?? 0) + 1.
nextTagNum(htmlCounts, htmlTagName) ==
    (IF htmlTagName \in DOMAIN htmlCounts THEN htmlCounts[htmlTagName] ELSE 0) + 1

setCount(htmlCounts, htmlTagName, n) ==
    [t \in DOMAIN htmlCounts \cup {htmlTagName} |->
        IF t = htmlTagName THEN n ELSE htmlCounts[t]]

\* Lines 130-131.
xpathElementBareOf(htmlTagName) == Slash \o htmlTagName
xpathElementOf(htmlTagName, htmlTagNum) ==
    xpathElementBareOf(htmlTagName) \o <<"[">> \o NumToStr(htmlTagNum) \o <<"]">>

\* Lines 132-134: dataEntries.findIndex(...), 1-based here, 0 for -1.
findIndex(dataEntries, xpathElementBare, xpathElement) ==
    LET hit == {i \in 1..Len(dataEntries) :
                   \/ dataEntries[i].key = xpathElementBare
                   \/ dataEntries[i].key = xpathElement}
    IN  IF hit = {} THEN 0
        ELSE CHOOSE i \in hit : \A j \in hit : i <= j

\* Variant: the paired entry stays in the list.
splice_Keep(dataEntries, i) == dataEntries

\* Line 139: dataEntries.splice(dataEntryIndex, 1).
splice(dataEntries, i) ==
    SubSeq(dataEntries, 1, i - 1) \o SubSeq(dataEntries, i + 1, Len(dataEntries))

\* Line 142.
xmlTagName(htmlTagName) ==
    IF htmlTagName = TextSentinel THEN TextTag ELSE htmlTagName

\* Lines 143-146: a new element, appended to xmlNode.
appendTo(result, xmlNode, tagName) ==
    Append([result EXCEPT ![xmlNode].children = Append(@, Len(result) + 1)],
           [type |-> "tag", name |-> tagName, attribs |-> <<>>,
            children |-> <<>>])

\* Line 153.
childXpath(xpath, jsonKey) == IF xpath = Slash THEN jsonKey ELSE xpath \o jsonKey

(***************************************************************************)
(* blendNode (lines 61-156).  st is what a call reads and changes: the     *)
(* HTML heap, the XML heap, the log, and the record of steps.  The result  *)
(* is st when the call returns.  blendChildren is the `while (true)` loop  *)
(* of lines 103-155, one iteration per unfolding.  st.thrown says that an  *)
(* exception is on its way up: the frames it passes do nothing more (each  *)
(* records a "throw" step), and what was changed before it stays changed.  *)
(***************************************************************************)
RECURSIVE blendNode(_, _, _, _, _), blendChildren(_, _, _, _, _, _, _)

blendNode(st, data, htmlNode, xmlNode, xpath) ==
    LET call == st.calls + 1
        entries == ObjectEntries(data)
        htmlEl == st.dom[htmlNode]
        nAttr == LeadingAttrs(entries)
        dataEntries == SubSeq(entries, nAttr + 1, Len(entries))
        bad == keyWithoutSlash(dataEntries)
        s0 == note([st EXCEPT !.calls = call],
                   [Event(call, "enter", xpath, htmlNode, xmlNode, Keys(entries),
                          htmlChildrenOf(st.dom, htmlNode), <<>>, 0, <<>>)
                       EXCEPT !.value = data])
        s1 == [s0 EXCEPT
                 !.result = visualAttrs(@, xmlNode, SubSeq(entries, 1, nAttr))]
    IN  IF entriesThrow(data)
        THEN note([s0 EXCEPT !.thrown = TRUE],
                  Event(call, "throw", xpath, htmlNode, xmlNode, <<>>,
                        htmlChildrenOf(st.dom, htmlNode), <<>>, 0, <<>>))
        ELSE IF bad # 0
        THEN warn(s1, LogEntry(call, xpath, "unexpected key without slash",
                               dataEntries[bad].key, "", FALSE, FALSE, <<>>))
        ELSE IF isText(htmlEl) \/ isTag(htmlEl) \/ isDocument(htmlEl)
        THEN blendChildren(
                 [s1 EXCEPT !.result = htmlAttrs(@, xmlNode, htmlEl)],
                 call, dataEntries, htmlNode, <<>>, xmlNode, xpath)
        ELSE warn(s1, LogEntry(call, xpath, "unrecognized element", <<>>,
                               htmlEl.type, FALSE, FALSE, <<>>))

blendChildren(st, call, dataEntries, htmlNode, htmlCounts, xmlNode, xpath) ==
    LET htmlChildren == htmlChildrenOf(st.dom, htmlNode)
        anyJson == dataEntries # <<>>
        anyHtml == htmlChildren # <<>>
        ev(name, child, index, key) ==
            Event(call, name, xpath, htmlNode, xmlNode, Keys(dataEntries),
                  htmlChildren, child, index, key)
    IN  IF inconsistentCount(anyJson, anyHtml)
        THEN warn(note(st, ev("unexpected end", <<>>, 0, <<>>)),
                  LogEntry(call, xpath, "unexpected end", <<>>, "",
                           anyJson, anyHtml, <<>>))
        ELSE IF ~anyJson
        THEN note(st, ev("end", <<>>, 0, <<>>))
        ELSE
        LET child == Head(htmlChildren)
            htmlChild == st.dom[child]
            \* htmlChildren.shift() changes the node's own array.
            shifted == [st EXCEPT !.dom[htmlNode].children = shift(@)]
        IN  IF ~isText(htmlChild) /\ ~isTag(htmlChild)
            THEN blendChildren(
                     IF ~isDirective(htmlChild) /\ ~isComment(htmlChild)
                     THEN warn(note(shifted, ev("unrecognized child", child, 0, <<>>)),
                               LogEntry(call, xpath, "unrecognized child", <<>>,
                                        htmlChild.type, FALSE, FALSE, <<>>))
                     ELSE note(shifted, ev("skip", child, 0, <<>>)),
                     call, dataEntries, htmlNode, htmlCounts, xmlNode, xpath)
            ELSE
            LET htmlTagName == htmlTagNameOf(htmlChild)
                htmlTagNum == nextTagNum(htmlCounts, htmlTagName)
                counts == setCount(htmlCounts, htmlTagName, htmlTagNum)
                xpathElementBare == xpathElementBareOf(htmlTagName)
                xpathElement == xpathElementOf(htmlTagName, htmlTagNum)
                dataEntryIndex ==
                    findIndex(dataEntries, xpathElementBare, xpathElement)
            IN  IF dataEntryIndex = 0
                THEN blendChildren(
                         warn(note(shifted, ev("non-existent child", child, 0, <<>>)),
                              LogEntry(call, xpath, "non-existent child", <<>>, "",
                                       FALSE, FALSE, xpathElement)),
                         call, dataEntries, htmlNode, counts, xmlNode, xpath)
                ELSE
                LET jsonKey == dataEntries[dataEntryIndex].key
                    jsonValue == dataEntries[dataEntryIndex].value
                    xmlChild == Len(st.result) + 1
                    appended ==
                        note([shifted EXCEPT
                                 !.result = appendTo(@, xmlNode,
                                                     xmlTagName(htmlTagName))],
                             [ev("pair", child, dataEntryIndex, jsonKey)
                                 EXCEPT !.xml = xmlChild, !.value = jsonValue])
                    returned == blendNode(appended, jsonValue, child, xmlChild,
                                          childXpath(xpath, jsonKey))
                IN  IF returned.thrown
                    THEN note(returned,
                              Event(call, "throw", xpath, htmlNode, xmlNode,
                                    Keys(splice(dataEntries, dataEntryIndex)),
                                    htmlChildrenOf(returned.dom, htmlNode),
                                    child, 0, <<>>))
                    ELSE blendChildren(returned, call,
                                       splice(dataEntries, dataEntryIndex),
                                       htmlNode, counts, xmlNode, xpath)

(***************************************************************************)
(* The recipes: the JSON file at recipe.jsonPath and the page at           *)
(* recipe.page.html, the page given as the tree the HTML parser makes of   *)
(* it (a doctype, then html with head and body).  Four families: flat      *)
(* lists of elements and comments under body against flat key lists,       *)
(* same-tag siblings against bare and indexed keys, an element with        *)
(* children (elements, text, comments) against nested entries, and         *)
(* attributes.                                                             *)
(***************************************************************************)
SeqsUpTo(S, n) == UNION {[1..k -> S] : k \in 0..n}
Range(s) == {s[i] : i \in 1..Len(s)}

NoDupKeys(es) == \A i, j \in 1..Len(es) : i # j => es[i].key # es[j].key
NoDupNames(as) == \A i, j \in 1..Len(as) : i # j => as[i].name # as[j].name

Page(bodyAttribs, content) ==
    Document(<<Directive("!doctype html"),
               El(T_html, <<>>,
                  <<El(T_head, <<>>, <<>>), El(T_body, bodyAttribs, content)>>)>>)

JsonPage(bodyEntries) ==
    Obj(<<Entry(K_timestamp, Scalar("1")),
          Entry(<<"/", "h", "t", "m", "l">>,
                Obj(<<Entry(<<"/", "h", "e", "a", "d">>, Obj(<<>>)),
                      Entry(<<"/", "b", "o", "d", "y">>, Obj(bodyEntries))>>))>>)

Recipe(json, html) == [json |-> json, html |-> html]

ElA == El(T_a, <<>>, <<>>)
ElB == El(T_b, <<>>, <<>>)

FlatNodes == {ElA, ElB, Comment("c")}
FlatEntries ==
    {Entry(<<"/", "a">>, Obj(<<>>)),
     Entry(<<"/", "a", "[", "2", "]">>, Obj(<<>>)),
     Entry(<<"/", "b">>, Obj(<<>>))}

FlatRecipes ==
    {Recipe(JsonPage(e), Page(<<>>, c)) :
        e \in {es \in SeqsUpTo(FlatEntries, MaxKeys) : NoDupKeys(es)},
        c \in SeqsUpTo(FlatNodes, MaxChildren)}

\* Same-tag siblings against the bare and the indexed forms of their keys.
IndexEntries ==
    {Entry(<<"/", "a">>, Obj(<<>>)),
     Entry(<<"/", "a", "[", "1", "]">>, Obj(<<>>)),
     Entry(<<"/", "a", "[", "2", "]">>, Obj(<<>>))}

IndexRecipes ==
    {Recipe(JsonPage(e), Page(<<>>, c)) :
        e \in {es \in SeqsUpTo(IndexEntries, MaxKeys) : NoDupKeys(es)},
        c \in SeqsUpTo({ElA}, MaxChildren)}

NestedNodes == {ElB, Text("hi"), Comment("n")}
TextValues ==
    {Obj(<<Entry(<<"f", "o", "n", "t", "S", "i", "z", "e">>, Scalar("10"))>>),
     Obj(<<Entry(<<"t", "e", "x", "t">>, Scalar("visual"))>>),
     Obj(<<Entry(<<"/", "b">>, Obj(<<>>))>>),
     Obj(<<Entry(<<"/", "b">>, Obj(<<>>)), Entry(<<"y">>, Scalar("2"))>>)}
NestedEntries ==
    {Entry(<<"/", "b">>, Obj(<<>>)), Entry(<<"x">>, Scalar("1"))} \cup
    {Entry(<<"/", "t", "e", "x", "t", "(", ")">>, v) : v \in TextValues}

\* Children led by a node that is no Text, Element, Comment or Directive:
\* the content fragment the parser puts under a <template>, a Document.
FragmentFirst == <<Document(<<>>), ElB>>

\* A level with an attribute key after a child key.
MalformedLevel ==
    <<Entry(<<"/", "b">>, Obj(<<>>)), Entry(<<"x">>, Scalar("1"))>>

\* What follows the nested element: a matching sibling, or a sibling of
\* another tag than its JSON entry.
NestedTails ==
    {[json |-> <<Entry(<<"/", "b", "[", "1", "]">>, Obj(<<>>))>>, html |-> <<ElB>>],
     [json |-> <<Entry(<<"/", "b", "[", "1", "]">>, Obj(<<>>))>>,
      html |-> <<Text("tail")>>]}

NestedRecipes ==
    {Recipe(JsonPage(<<Entry(<<"/", "a", "[", "1", "]">>, Obj(ne))>> \o t.json),
            Page(<<>>, <<El(T_a, <<>>, kids)>> \o t.html)) :
        ne \in {es \in SeqsUpTo(NestedEntries, MaxNested) : NoDupKeys(es)}
                  \cup {MalformedLevel},
        kids \in SeqsUpTo(NestedNodes, MaxNested) \cup {FragmentFirst},
        t \in NestedTails}

NativeAttrs ==
    {Attr(<<"_", "f", "o", "o">>, "n1"), Attr(<<"f", "o", "o">>, "n2"),
     Attr(<<"_", "_", "f", "o", "o">>, "n3")}
VisualEntries ==
    {Entry(<<"f", "o", "o">>, Scalar("10")),
     Entry(<<"_", "_", "f", "o", "o">>, Scalar("20")),
     Entry(K_id, Scalar("i")),
     Entry(K_whiteSpace, Scalar("pre")),
     Entry(<<"b", "a", "r">>, Null)}

\* The value of "/a": an object of visual attributes, or null.
AttrValues ==
    {Obj(es) : es \in {es \in SeqsUpTo(VisualEntries, MaxAttrs) : NoDupKeys(es)}}
        \cup {Null}

AttrRecipes ==
    {Recipe(JsonPage(<<Entry(<<"/", "a">>, v)>>),
            Page(<<>>, <<El(T_a, a, <<>>)>>)) :
        v \in AttrValues,
        a \in {as \in SeqsUpTo(NativeAttrs, MaxAttrs) : NoDupNames(as)}}

Recipes == FlatRecipes \cup IndexRecipes \cup NestedRecipes \cup AttrRecipes

(***************************************************************************)
(* The Blender.                                                            *)
(*   recipe  the constructor's recipe                                      *)
(*   data    this.data                                                     *)
(*   dom     this.dom, as a heap                                           *)
(*   result  this.result, as a heap (node 1 is the root)                   *)
(*   log     what the logger received                                      *)
(*   loaded  which of loadJsonData / loadHtmlDom has run                   *)
(*   runs    one record per finished blend(): what it read, what it left,  *)
(*           and whether it threw (history, not program state)             *)
(***************************************************************************)
VARIABLES recipe, data, dom, result, log, loaded, runs

(***************************************************************************)
(* The demo server (src/unnamed/part_001), once it listens.                *)
(*   pc         where each GET /run handler stands                         *)
(*   stdin      what python.send wrote and Python has not read yet         *)
(*   inference  the request Python is working on (0: none)                 *)
(*   listeners  the requests whose once('message') listener is registered  *)
(*   got        the `data` each handler's await yielded, as the request    *)
(*              the message answers (0: nothing yet)                       *)
(*   emitted    one record per 'message' event: the request it answers and *)
(*              the handlers it resolved (history, not program state)      *)
(***************************************************************************)
VARIABLES pc, stdin, inference, listeners, got, emitted

blender == <<recipe, data, dom, result, log, loaded, runs>>
server == <<pc, stdin, inference, listeners, got, emitted>>
vars == <<recipe, data, dom, result, log, loaded, runs,
          pc, stdin, inference, listeners, got, emitted>>

Requests == 1..MaxRequests

\* Lines 61-98: the routes are set and the server listens; the listener of
\* the start-up wait is off again (line 40).
ServerListening ==
    /\ pc = [r \in Requests |-> "idle"]
    /\ stdin = <<>>
    /\ inference = 0
    /\ listeners = <<>>
    /\ got = [r \in Requests |-> 0]
    /\ emitted = <<>>

Init ==
    /\ ServerListening
    /\ recipe \in Recipes
    /\ data = Obj(<<Entry(K_timestamp, Null)>>)
    /\ dom = CheerioLoad(EmptyPage)
    /\ result = EmptyResult
    /\ log = <<>>
    /\ loaded = [json |-> FALSE, html |-> FALSE]
    /\ runs = <<>>

\* Lines 39-42.
loadJsonData ==
    /\ data' = recipe.json
    /\ loaded' = [loaded EXCEPT !.json = TRUE]
    /\ UNCHANGED <<recipe, dom, result, log, runs>>
    /\ UNCHANGED server

\* Lines 44-49.
loadHtmlDom ==
    /\ dom' = CheerioLoad(recipe.html)
    /\ loaded' = [loaded EXCEPT !.html = TRUE]
    /\ UNCHANGED <<recipe, data, result, log, runs>>
    /\ UNCHANGED server

\* Lines 51-53.
blendRun ==
    blendNode([dom |-> dom, result |-> result, log |-> <<>>, trace |-> <<>>,
               calls |-> 0, thrown |-> FALSE],
              data, <<>>, 1, Slash)

blend ==
    /\ Len(runs) < MaxBlends
    /\ UNCHANGED <<recipe, data, loaded>>
    /\ UNCHANGED server
    /\ LET st == blendRun
       IN  /\ dom' = st.dom
           /\ result' = st.result
           /\ log' = log \o st.log
           /\ runs' = Append(runs,
                  [data |-> data, dataAfter |-> data', loaded |-> loaded,
                   domBefore |-> dom, domAfter |-> st.dom,
                   resultBefore |-> result, result |-> st.result,
                   log |-> st.log, trace |-> st.trace, thrown |-> st.thrown])

\* The page the DOM of a run was parsed from.
PageOf(r) == IF r.loaded.html THEN recipe.html ELSE EmptyPage

Next == loadJsonData \/ loadHtmlDom \/ blend

Spec == Init /\ [][Next]_vars

(***************************************************************************)
(* The /run route (lines 66-92).  A handler runs until its next await; the *)
(* awaits are browser.newPage (72), page.goto (73), the promise on the     *)
(* Python message (77-79) and page.screenshot (83).                        *)
(***************************************************************************)
\* Lines 66-72: a request arrives and the handler awaits a new page.
run(r) ==
    /\ pc[r] = "idle"
    /\ pc' = [pc EXCEPT ![r] = "newPage"]
    /\ UNCHANGED <<stdin, inference, listeners, got, emitted>>
    /\ UNCHANGED blender

\* Lines 72-73: the page is there and the handler awaits page.goto.
goto(r) ==
    /\ pc[r] = "newPage"
    /\ pc' = [pc EXCEPT ![r] = "goto"]
    /\ UNCHANGED <<stdin, inference, listeners, got, emitted>>
    /\ UNCHANGED blender

\* Lines 76-79: the page is loaded; python.send, then the executor of the
\* promise registers resolve as a once('message') listener, and the handler
\* awaits the promise.
send(r) ==
    /\ pc[r] = "goto"
    /\ stdin' = Append(stdin, r)
    /\ listeners' = Append(listeners, r)
    /\ pc' = [pc EXCEPT ![r] = "awaitMessage"]
    /\ UNCHANGED <<inference, got, emitted>>
    /\ UNCHANGED blender

\* The inference process reads one line of its input.
pythonRead ==
    /\ inference = 0
    /\ stdin # <<>>
    /\ inference' = Head(stdin)
    /\ stdin' = Tail(stdin)
    /\ UNCHANGED <<pc, listeners, got, emitted>>
    /\ UNCHANGED blender

\* The inference process prints its answer: python emits 'message', which
\* calls every registered listener; a once listener is removed as it is
\* called (line 78), and each resolves its handler's promise with the data.
message ==
    /\ inference # 0
    /\ inference' = 0
    /\ got' = [r \in Requests |->
                  IF r \in Range(listeners) THEN inference ELSE got[r]]
    /\ pc' = [r \in Requests |->
                 IF r \in Range(listeners) THEN "screenshot" ELSE pc[r]]
    /\ listeners' = <<>>
    /\ emitted' = Append(emitted,
                         [answers |-> inference, resolved |-> Range(listeners)])
    /\ UNCHANGED stdin
    /\ UNCHANGED blender

\* Lines 80-91: the screenshot is taken and the response is sent.
respond(r) ==
    /\ pc[r] = "screenshot"
    /\ pc' = [pc EXCEPT ![r] = "done"]
    /\ UNCHANGED <<stdin, inference, listeners, got, emitted>>
    /\ UNCHANGED blender

\* The Blender is no part of the server: it stays as constructed.
BlenderAtRest ==
    /\ recipe = Recipe(JsonPage(<<>>), Page(<<>>, <<>>))
    /\ data = Obj(<<Entry(K_timestamp, Null)>>)
    /\ dom = CheerioLoad(EmptyPage)
    /\ result = EmptyResult
    /\ log = <<>>
    /\ loaded = [json |-> FALSE, html |-> FALSE]
    /\ runs = <<>>

InitBridge == ServerListening /\ BlenderAtRest

NextBridge ==
    \/ \E r \in Requests : run(r) \/ goto(r) \/ send(r) \/ respond(r)
    \/ pythonRead
    \/ message

SpecBridge == InitBridge /\ [][NextBridge]_vars

(***************************************************************************)
(* Vocabulary of the properties: the calls of a run, their events and      *)
(* warnings, and the Address of section 3 of the specification.            *)
(***************************************************************************)
CallsOf(r) == {r.trace[i].call : i \in 1..Len(r.trace)}
EventsOf(r, c) == SelectSeq(r.trace, LAMBDA e : e.call = c)
EnterOf(r, c) == EventsOf(r, c)[1]
LoopOf(r, c) == Tail(EventsOf(r, c))
PairsOf(r, c) == SelectSeq(r.trace, LAMBDA e : e.call = c /\ e.ev = "pair")
WarningsOf(r, c) == SelectSeq(r.log, LAMBDA w : w.call = c)

\* A run on a freshly parsed DOM with an empty result tree.
FreshRun(r) ==
    /\ r.domBefore = CheerioLoad(PageOf(r))
    /\ r.resultBefore = EmptyResult

Participates(n) == isText(n) \/ isTag(n)

AddressTag(n) == IF isText(n) THEN TextSentinel ELSE n.name

Occurrence(kids, i) ==
    Cardinality({j \in 1..i : AddressTag(kids[j]) = AddressTag(kids[i])})

\* The keys that name the address (tag, occ): "/tag[occ]", and "/tag" for 1.
MirrorKeys(tag, occ) ==
    {Slash \o tag \o <<"[">> \o NumToStr(occ) \o <<"]">>} \cup
    (IF occ = 1 THEN {Slash \o tag} ELSE {})

\* The tag of a child key: what follows the slash, up to a bracket.
RECURSIVE UpToBracket(_)
UpToBracket(s) ==
    IF s = <<>> \/ Head(s) = "[" THEN <<>>
    ELSE <<Head(s)>> \o UpToBracket(Tail(s))
KeyTag(key) == UpToBracket(Tail(key))

\* The JSON tree mirrors the HTML tree: at every level the attribute keys
\* come first and the child keys name, in order, the addresses of the
\* Text/Element children.
RECURSIVE Mirrors(_, _)
Mirrors(json, html) ==
    LET entries == ObjectEntries(json)
        childEntries == SelectSeq(entries, LAMBDA e : startsWith(e.key, Slash))
        nAttr == Len(entries) - Len(childEntries)
        kids == SelectSeq(html.children, Participates)
    IN  /\ json.t = "obj"
        /\ \A i \in 1..nAttr : ~startsWith(entries[i].key, Slash)
        /\ Len(childEntries) = Len(kids)
        /\ \A i \in 1..Len(kids) :
              /\ childEntries[i].key \in
                     MirrorKeys(AddressTag(kids[i]), Occurrence(kids, i))
              /\ Mirrors(childEntries[i].value, kids[i])

RECURSIVE HtmlShape(_)
HtmlShape(html) ==
    LET kids == SelectSeq(html.children, Participates)
    IN  [name |-> IF isText(html) THEN TextTag ELSE html.name,
         children |-> [i \in 1..Len(kids) |-> HtmlShape(kids[i])]]

RECURSIVE XmlShape(_, _)
XmlShape(res, x) ==
    [name |-> res[x].name,
     children |-> [i \in 1..Len(res[x].children) |->
                      XmlShape(res, res[x].children[i])]]

RECURSIVE StripComments(_)
StripComments(html) ==
    LET kept == SelectSeq(html.children,
                          LAMBDA n : ~isComment(n) /\ ~isDirective(n))
    IN  [html EXCEPT !.children = [i \in 1..Len(kept) |-> StripComments(kept[i])]]

HasTrailingSkipped(html) ==
    \E p \in Paths(html) :
        LET c == NodeAt(html, p).children
        IN  c # <<>> /\ ~Participates(c[Len(c)])

(***************************************************************************)
(* C1.  Mirrored inputs: the output has one node per Text/Element node of  *)
(* the HTML tree, in the same shape, and nothing is logged.                *)
(***************************************************************************)
C1_MirroredInputsAlignSilently ==
    \A i \in 1..Len(runs) :
        (FreshRun(runs[i]) /\ Mirrors(runs[i].data, PageOf(runs[i]))) =>
            /\ runs[i].log = <<>>
            /\ XmlShape(runs[i].result, 1) = HtmlShape(PageOf(runs[i]))

(***************************************************************************)
(* C2.  Strict lock-step: every pairing takes the first remaining JSON     *)
(* child entry.                                                            *)
(***************************************************************************)
C2_PairsTakeFirstEntry ==
    \A i \in 1..Len(runs) : \A k \in 1..Len(runs[i].trace) :
        runs[i].trace[k].ev = "pair" => runs[i].trace[k].index = 1

(***************************************************************************)
(* C3.  Divergence containment: once a Text/Element child is popped whose  *)
(* tag differs from the tag of the next JSON child entry, the level logs   *)
(* a warning and appends no child for any later HTML child.                *)
(***************************************************************************)
C3_NoChildAfterMismatch ==
    \A i \in 1..Len(runs) : \A k \in 1..Len(runs[i].trace) :
        LET r == runs[i]
            e == r.trace[k]
        IN  (/\ e.ev \in {"pair", "non-existent child"}
             /\ KeyTag(e.keys[1]) # AddressTag(r.domBefore[e.child])) =>
                /\ WarningsOf(r, e.call) # <<>>
                /\ \A m \in (k + 1)..Len(r.trace) :
                      ~(r.trace[m].call = e.call /\ r.trace[m].ev = "pair")

(***************************************************************************)
(* C4.  The inputs are read-only: blend leaves every HTML node's child     *)
(* list, and the JSON data, as they were.                                  *)
(***************************************************************************)
C4_InputsUnchanged ==
    \A i \in 1..Len(runs) :
        /\ runs[i].domAfter = runs[i].domBefore
        /\ runs[i].dataAfter = runs[i].data

(***************************************************************************)
(* C5.  Idempotence: two runs of blend on the same loaded inputs leave the *)
(* same output tree and log the same warnings.                             *)
(***************************************************************************)
C5_SecondRunSameOutput ==
    \A i, j \in 1..Len(runs) :
        (runs[i].data = runs[j].data /\ PageOf(runs[i]) = PageOf(runs[j])) =>
            /\ runs[i].result = runs[j].result
            /\ runs[i].log = runs[j].log

(***************************************************************************)
(* C6.  Attribute collision: on an aligned Element a native attribute      *)
(* _foo is written as __foo and a visual attribute foo as _foo, each with  *)
(* its own value.                                                          *)
(***************************************************************************)
N_foo == <<"f", "o", "o">>
N_1foo == <<"_", "f", "o", "o">>
N_2foo == <<"_", "_", "f", "o", "o">>
N_3foo == <<"_", "_", "_", "f", "o", "o">>

AlignedElements(r) ==
    {c \in CallsOf(r) :
        /\ isTag(r.domBefore[EnterOf(r, c).node])
        /\ \A w \in Range(WarningsOf(r, c)) :
              w.msg # "unexpected key without slash"}

VisualValue(value, key) ==
    LET entries == ObjectEntries(value)
        hit == {k \in 1..LeadingAttrs(entries) : entries[k].key = key}
    IN  IF hit = {} THEN "<none>" ELSE entries[CHOOSE k \in hit : TRUE].value.s

C6_NativeUnderscoreGetsOneMore ==
    \A i \in 1..Len(runs) : \A c \in AlignedElements(runs[i]) :
        LET r == runs[i]
            e == EnterOf(r, c)
            el == r.domBefore[e.node]
            out == r.result[e.xml]
        IN  /\ \A a \in Range(el.attribs) :
                  a.name = N_1foo => AttrValue(out, N_2foo) = a.value
            /\ VisualValue(e.value, N_foo) # "<none>" =>
                  AttrValue(out, N_1foo) = VisualValue(e.value, N_foo)

(***************************************************************************)
(* C7.  Every output element made for a Text node is tagged text and       *)
(* carries _text, the node's raw string, once blend has finished.          *)
(***************************************************************************)
C7_TextElementsCarryText ==
    \A i \in 1..Len(runs) : \A c \in CallsOf(runs[i]) :
        LET r == runs[i]
            e == EnterOf(r, c)
        IN  isText(r.domBefore[e.node]) =>
                /\ r.result[e.xml].name = TextTag
                /\ AttrValue(r.result[e.xml], K_text) = r.domBefore[e.node].data

(***************************************************************************)
(* C8.  Comment and Directive children are transparent: the run on the     *)
(* page yields the output tree and the warnings of the run on the page     *)
(* with every Comment and Directive removed.                               *)
(***************************************************************************)
StrippedRun(r) ==
    blendNode([dom |-> CheerioLoad(StripComments(PageOf(r))),
               result |-> EmptyResult, log |-> <<>>, trace |-> <<>>,
               calls |-> 0, thrown |-> FALSE],
              r.data, <<>>, 1, Slash)

C8_CommentsTransparent ==
    \A i \in 1..Len(runs) :
        FreshRun(runs[i]) =>
            /\ StrippedRun(runs[i]).result = runs[i].result
            /\ Range(StrippedRun(runs[i]).log) = Range(runs[i].log)

(***************************************************************************)
(* C9.  Level end and count mismatch.  Of every call that reached its      *)
(* child loop and returned (no exception passed through it, see C11): the  *)
(* loop goes on only while JSON child entries and HTML children both       *)
(* remain; it stops silently exactly when both are empty, and with one     *)
(* 'unexpected end' exactly when one of them is; nothing of the level is   *)
(* consumed afterwards, and the children appended by the level are the     *)
(* children of its output node.                                            *)
(***************************************************************************)
\* The calls an exception ended, and the calls that returned.
Aborted(r, c) == EventsOf(r, c)[Len(EventsOf(r, c))].ev = "throw"
ReturnedCalls(r) == {c \in CallsOf(r) : ~Aborted(r, c)}

LoopCalls(r) == {c \in ReturnedCalls(r) : LoopOf(r, c) # <<>>}

AppendedBy(r, c) ==
    LET ps == PairsOf(r, c) IN [k \in 1..Len(ps) |-> ps[k].xml]

ChildrenBefore(r, x) ==
    IF x <= Len(r.resultBefore) THEN r.resultBefore[x].children ELSE <<>>

UnexpectedEnds(r, c) ==
    SelectSeq(r.log, LAMBDA w : w.call = c /\ w.msg = "unexpected end")

BothEmpty(e) == e.keys = <<>> /\ e.html = <<>>
OneEmpty(e) == (e.keys = <<>>) # (e.html = <<>>)

C9_LevelEnd ==
    \A i \in 1..Len(runs) : \A c \in LoopCalls(runs[i]) :
        LET r == runs[i]
            loop == LoopOf(r, c)
            last == loop[Len(loop)]
            x == EnterOf(r, c).xml
        IN  /\ \A k \in 1..(Len(loop) - 1) :
                  /\ loop[k].keys # <<>> /\ loop[k].html # <<>>
                  /\ loop[k].ev \notin {"end", "unexpected end"}
            /\ last.ev \in {"end", "unexpected end"}
            /\ last.ev = "end" <=> BothEmpty(last)
            /\ last.ev = "unexpected end" <=> OneEmpty(last)
            /\ Len(UnexpectedEnds(r, c)) = (IF OneEmpty(last) THEN 1 ELSE 0)
            /\ OneEmpty(last) =>
                  /\ UnexpectedEnds(r, c)[1].anyJson = (last.keys # <<>>)
                  /\ UnexpectedEnds(r, c)[1].anyHtml = (last.html # <<>>)
            /\ r.domAfter[last.node].children = last.html
            /\ r.result[x].children = ChildrenBefore(r, x) \o AppendedBy(r, c)

\* A level that paired a child and then ran out of HTML children with a
\* JSON child entry left, and a level that ran out of JSON child entries
\* with an HTML child left.
C9_Witness ==
    \E i \in 1..Len(runs) : \E c, d \in LoopCalls(runs[i]) :
        LET lastc == LoopOf(runs[i], c)[Len(LoopOf(runs[i], c))]
            lastd == LoopOf(runs[i], d)[Len(LoopOf(runs[i], d))]
        IN  /\ lastc.ev = "unexpected end"
            /\ lastc.keys # <<>>
            /\ PairsOf(runs[i], c) # <<>>
            /\ lastd.ev = "unexpected end"
            /\ lastd.html # <<>>

(***************************************************************************)
(* C10.  Every divergence is logged: a call that returns with a JSON child *)
(* entry of its level unpaired, or with a Text/Element child of its HTML   *)
(* node unpaired, has logged at least one warning.                         *)
(***************************************************************************)
ChildKeys(r, c) == {k \in Range(EnterOf(r, c).keys) : startsWith(k, Slash)}
PairedKeys(r, c) == {e.key : e \in Range(PairsOf(r, c))}
Kids(r, c) == {p \in Range(EnterOf(r, c).html) : Participates(r.domBefore[p])}
PairedKids(r, c) == {e.child : e \in Range(PairsOf(r, c))}

C10_DivergenceLogged ==
    \A i \in 1..Len(runs) : \A c \in ReturnedCalls(runs[i]) :
        (\/ ChildKeys(runs[i], c) # PairedKeys(runs[i], c)
         \/ Kids(runs[i], c) # PairedKids(runs[i], c)) =>
            WarningsOf(runs[i], c) # <<>>

\* A level whose JSON child entries were all paired and whose loop ended
\* silently, with an Element child left unpaired on the way.
C10_Witness ==
    \E i \in 1..Len(runs) : \E c \in LoopCalls(runs[i]) :
        /\ ChildKeys(runs[i], c) = PairedKeys(runs[i], c)
        /\ Kids(runs[i], c) # PairedKids(runs[i], c)
        /\ LoopOf(runs[i], c)[Len(LoopOf(runs[i], c))].ev = "end"
        /\ PairsOf(runs[i], c) # <<>>

(***************************************************************************)
(* C11.  A divergence is node-local and never aborts the pass: blend       *)
(* returns normally, and after every pairing, whatever the recursive call  *)
(* for the child did, the level goes on with the remaining JSON child      *)
(* entries (the paired one removed) and the remaining HTML children (the   *)
(* paired one removed).                                                    *)
(***************************************************************************)
LevelGoesOn(r) ==
    \A c \in CallsOf(r) :
        LET evs == EventsOf(r, c)
        IN  \A k \in 1..Len(evs) :
                evs[k].ev = "pair" =>
                    /\ k < Len(evs)
                    /\ evs[k + 1].keys = Keys(splice([j \in 1..Len(evs[k].keys) |->
                                              Entry(evs[k].keys[j], Null)],
                                              evs[k].index))
                    /\ evs[k + 1].html = Tail(evs[k].html)

C11_DivergenceNeverAborts ==
    \A i \in 1..Len(runs) :
        /\ ~runs[i].thrown
        /\ LevelGoesOn(runs[i])

(***************************************************************************)
(* C12.  Malformed visual level: a call whose JSON level has a key without *)
(* a slash after a key with a slash logs 'unexpected key without slash'    *)
(* (once, for the first such key) and abandons the level: it takes no      *)
(* step of the child loop, appends no child below its output node, and     *)
(* leaves the HTML children of its node where they were.                   *)
(***************************************************************************)
MisplacedKeys(keys) ==
    {j \in 1..Len(keys) :
        /\ ~startsWith(keys[j], Slash)
        /\ \E i \in 1..(j - 1) : startsWith(keys[i], Slash)}

MalformedCalls(r) ==
    {c \in CallsOf(r) : MisplacedKeys(EnterOf(r, c).keys) # {}}

C12_MalformedLevelAbandoned ==
    \A i \in 1..Len(runs) : \A c \in MalformedCalls(runs[i]) :
        LET r == runs[i]
            e == EnterOf(r, c)
            first == CHOOSE j \in MisplacedKeys(e.keys) :
                         \A k \in MisplacedKeys(e.keys) : j <= k
        IN  /\ Len(WarningsOf(r, c)) = 1
            /\ WarningsOf(r, c)[1].msg = "unexpected key without slash"
            /\ WarningsOf(r, c)[1].key = e.keys[first]
            /\ EventsOf(r, c) = <<e>>
            /\ r.result[e.xml].children = ChildrenBefore(r, e.xml)
            /\ htmlChildrenOf(r.domAfter, e.node) = e.html

\* A malformed level over an Element that has a child its first key names.
C12_Witness ==
    \E i \in 1..Len(runs) : \E c \in MalformedCalls(runs[i]) :
        LET r == runs[i]
            e == EnterOf(r, c)
        IN  /\ e.html # <<>>
            /\ isTag(r.domBefore[e.html[1]])
            /\ e.keys[1] = Slash \o r.domBefore[e.html[1]].name

(***************************************************************************)
(* C13.  Dropped attributes: at every JSON level whose output node is an   *)
(* element, each visual attribute k other than whiteSpace and id is on the *)
(* output node as _k with its value when blend has finished, and no output *)
(* node has an attribute named _whiteSpace or _id.                         *)
(***************************************************************************)
VisualAttributesOf(value) ==
    LET entries == ObjectEntries(value)
    IN  {entries[k] : k \in 1..LeadingAttrs(entries)}

NeverDropped(res) ==
    \A x \in 1..Len(res) :
        /\ ~HasAttr(res[x], Underscore \o K_whiteSpace)
        /\ ~HasAttr(res[x], Underscore \o K_id)

C13_VisualAttributesWritten ==
    \A i \in 1..Len(runs) :
        /\ NeverDropped(runs[i].result)
        /\ \A c \in CallsOf(runs[i]) :
              LET r == runs[i]
                  e == EnterOf(r, c)
              IN  r.result[e.xml].type = "tag" =>
                      \A a \in VisualAttributesOf(e.value) :
                          a.key \notin {K_whiteSpace, K_id} =>
                              AttrValue(r.result[e.xml], Underscore \o a.key)
                                  = ValueText(a.value)

(***************************************************************************)
(* C14.  Address agreement of every pair: the Address parsed from the      *)
(* paired JSON key (its tag, and its index, 1 for the bare form) equals    *)
(* the Address of the paired HTML child (its tag or text(), and its        *)
(* 1-based occurrence among the same-tag Text/Element children the level   *)
(* has seen so far).                                                       *)
(***************************************************************************)
DigitValue(d) ==
    CHOOSE n \in 0..9 : Digit(n) = d

RECURSIVE StrToNum(_)
StrToNum(s) ==
    IF s = <<>> THEN 0
    ELSE 10 * StrToNum(SubSeq(s, 1, Len(s) - 1)) + DigitValue(s[Len(s)])

\* The index of a child key: the number between the brackets, 1 if none.
KeyIndex(key) ==
    LET tag == KeyTag(key)
    IN  IF Len(key) = 1 + Len(tag) THEN 1
        ELSE StrToNum(SubSeq(key, Len(tag) + 3, Len(key) - 1))

KeyAddress(key) == [tag |-> KeyTag(key), index |-> KeyIndex(key)]

\* The Address of the HTML child a level paired: its occurrence among the
\* Text/Element children of the level up to and including it.
ChildAddress(r, c, child) ==
    LET all == EnterOf(r, c).html
        pos == CHOOSE k \in 1..Len(all) : all[k] = child
        tag == AddressTag(r.domBefore[child])
    IN  [tag |-> tag,
         index |-> Cardinality({j \in 1..pos :
                       /\ Participates(r.domBefore[all[j]])
                       /\ AddressTag(r.domBefore[all[j]]) = tag})]

C14_PairAddressesAgree ==
    \A i \in 1..Len(runs) : \A c \in CallsOf(runs[i]) :
        \A e \in Range(PairsOf(runs[i], c)) :
            KeyAddress(e.key) = ChildAddress(runs[i], c, e.child)

(***************************************************************************)
(* C15.  Termination.  Every blend comes to an end: the root call takes a  *)
(* last step, no HTML node is entered twice, and every iteration of a      *)
(* level's child loop either stops the loop or removes the first of the    *)
(* remaining HTML children, also when it skips a Comment or Directive or   *)
(* finds no JSON key for the child; so a loop takes at most one step more  *)
(* than its node has children.                                             *)
(***************************************************************************)
StopSteps == {"end", "unexpected end", "throw"}

LoopShrinks(r, c) ==
    LET loop == LoopOf(r, c)
    IN  /\ Len(loop) <= Len(EnterOf(r, c).html) + 1
        /\ loop # <<>> => loop[1].html = EnterOf(r, c).html
        /\ \A k \in 1..Len(loop) :
              IF loop[k].ev \in StopSteps
              THEN k = Len(loop)
              ELSE /\ loop[k].html # <<>>
                   /\ loop[k].child = Head(loop[k].html)
                   /\ k < Len(loop)
                   /\ loop[k + 1].html = Tail(loop[k].html)

C15_BlendTerminates ==
    \A i \in 1..Len(runs) :
        LET r == runs[i]
            top == EventsOf(r, 1)
        IN  /\ Len(top) = 1 \/ top[Len(top)].ev \in StopSteps
            /\ \A c, d \in CallsOf(r) :
                  c # d => EnterOf(r, c).node # EnterOf(r, d).node
            /\ \A c \in CallsOf(r) : LoopShrinks(r, c)

\* A run that skipped the doctype, passed over a child that is neither
\* Text, Element, Comment nor Directive and then paired its sibling, and
\* found no JSON key for a later child.
C15_Witness ==
    \E i \in 1..Len(runs) : \E c \in CallsOf(runs[i]) :
        LET loop == LoopOf(runs[i], c)
        IN  /\ Len(loop) >= 2
            /\ loop[1].ev = "unrecognized child"
            /\ loop[2].ev = "pair"
            /\ \E e \in Range(runs[i].trace) : e.ev = "skip"
            /\ \E e \in Range(runs[i].trace) : e.ev = "non-existent child"

(***************************************************************************)
(* C16.  Pairing invariant.  At every level each JSON child entry and each *)
(* HTML child is paired at most once; the level appends at most as many    *)
(* output children as it has JSON child entries and as its node has        *)
(* Text/Element children; and the appended children follow each other in   *)
(* the document order of their HTML children and carry their tags (text    *)
(* for a Text node).                                                       *)
(***************************************************************************)
PositionIn(seq, x) == CHOOSE k \in 1..Len(seq) : seq[k] = x

OutputTag(n) == IF isText(n) THEN TextTag ELSE n.name

C16_PairingInvariant ==
    \A i \in 1..Len(runs) : \A c \in CallsOf(runs[i]) :
        LET r == runs[i]
            e == EnterOf(r, c)
            ps == PairsOf(r, c)
        IN  /\ \A a, b \in 1..Len(ps) :
                  a # b => ps[a].key # ps[b].key /\ ps[a].child # ps[b].child
            /\ Len(ps) <= Cardinality(ChildKeys(r, c))
            /\ Len(ps) <= Cardinality(Kids(r, c))
            /\ \A a \in 1..Len(ps) :
                  /\ ps[a].key \in ChildKeys(r, c)
                  /\ ps[a].child \in Kids(r, c)
                  /\ r.result[ps[a].xml].name = OutputTag(r.domBefore[ps[a].child])
            /\ \A a, b \in 1..Len(ps) :
                  a < b => PositionIn(e.html, ps[a].child)
                               < PositionIn(e.html, ps[b].child)
            /\ r.result[e.xml].children = ChildrenBefore(r, e.xml) \o AppendedBy(r, c)

\* A level that paired two children in document order against JSON entries
\* in the opposite order.
C16_Witness ==
    \E i \in 1..Len(runs) : \E c \in CallsOf(runs[i]) :
        LET ps == PairsOf(runs[i], c)
        IN  /\ Len(ps) = 2
            /\ ps[1].index = 2
            /\ ps[1].key # ps[2].key
            /\ runs[i].result[ps[1].xml].name # runs[i].result[ps[2].xml].name

(***************************************************************************)
(* C17.  Request/response pairing of the Python bridge: the data a /run    *)
(* handler's await yields is the message Python produced in answer to      *)
(* that handler's own python.send, and no Python message resolves more     *)
(* than one pending request.                                               *)
(***************************************************************************)
C17_EachAnswerToItsRequest ==
    /\ \A r \in Requests : got[r] # 0 => got[r] = r
    /\ \A k \in 1..Len(emitted) : Cardinality(emitted[k].resolved) <= 1

====
